---- MODULE Spec2Model ----
(***************************************************************************)
(* Handshake resolver module: model of the chain-record resolution         *)
(* algorithm, `Handshake.resolve` and its handlers, in the seven listings  *)
(* the repository holds:                                                   *)
(*   "index_v1"    src/src/index.ts lines 1-266   (earlier listing)        *)
(*   "index_v2"    src/src/index.ts lines 268-559                          *)
(*   "dist"        src/dist/index.js                                       *)
(*   "part_001_js" src/unnamed/part_001 lines 1-158   (always Empty)       *)
(*   "part_001_ts" src/unnamed/part_001 lines 160-401 (always Empty)       *)
(*   "part_002"    src/unnamed/part_002           (priority pick)          *)
(*   "resolver"    src/src/resolver.ts            (processRecords)         *)
(*                                                                         *)
(* A JavaScript string is modelled by the sequence of labels that          *)
(* s.split(".") gives: "ns1.com" is <<"ns1", "com">>, "hello" is           *)
(* <<"hello">>, "ns1.com." is <<"ns1", "com", "">>.  The empty sequence    *)
(* stands for the JavaScript value undefined.                              *)
(*                                                                         *)
(* One behaviour of the model is one call of resolve.  Every await of the  *)
(* code is a step boundary: the answer of a collaborator (the sibling      *)
(* modules, the chain query, the host resolver, the DNS client) is chosen  *)
(* when the call returns.                                                  *)
(***************************************************************************)
EXTENDS Integers, Sequences, FiniteSets, TLC

VARIABLES
    variant,      \* which listing of the module runs
    domain,       \* resolve argument: the name
    type,         \* options.type: the requested record type
    opts,         \* options.options: the free-form option map
    bypassCache,  \* resolve argument
    resolvers,    \* the sibling module list as buildBlacklist holds it:
                  \* the TLD list of each module, pending until awaited
    chainResp,    \* what the chain query answered
    hnsRecords,   \* the chain record set being processed
    idx,          \* position of the dispatch loop in hnsRecords
    records,      \* the result accumulator
    calls,        \* the external calls issued so far, in issue order
    hostResult,   \* the records of the host result the handler holds
    pc,           \* where the call is suspended
    outcome,      \* what resolve returned
    resultRecords, \* the records of that host result as the handler leaves them
    stack,        \* the resolve calls suspended on a nested resolve call
    zone          \* the record set the chain publishes under each label

vars == <<variant, domain, type, opts, bypassCache, resolvers, chainResp,
          hnsRecords, idx, records, calls, hostResult, pc, outcome, stack,
          zone, resultRecords>>

----------------------------------------------------------------------------
(* Bounds of the model *)

MaxRecords == 2

MaxHostRecords == 1

----------------------------------------------------------------------------
(* Strings *)

Undefined == <<>>

Variants ==
    {"index_v1", "index_v2", "dist", "part_001_js", "part_001_ts", "part_002",
     "resolver"}

\* the listings of index.ts and dist/index.js, with the per-record dispatch loop
DispatchVariants == {"index_v1", "index_v2", "dist"}

\* the two listings of part_001: the dispatch loop, and resolve ends in
\* return resolverEmptyResponse() whatever was accumulated
Part001Variants == {"part_001_js", "part_001_ts"}

\* every listing with the dispatch loop
LoopListings == DispatchVariants \cup Part001Variants

\* the listings with the earlier processNs
EarlyVariants == {"index_v1"} \cup Part001Variants

DNS_RECORD_TYPE == {"A", "CNAME", "NS", "TEXT", "CONTENT"}

HIP5_EXTENSIONS == <<<<"eth">>, <<"_eth">>>>

\* tldEnum.list: the static ICANN TLD list (the entries the model's names use)
IcannTlds == {"com", "org", "net"}

\* characters of a label: does the label match /[a-zA-Z0-9\-]+/ somewhere
LabelHasAlnum(l) == l \notin {"", "_", "::"}

\* a label made of letters, digits and hyphens only
IsHostLabel(l) == l \in {"ns1", "com", "eth", "hns", "example", "foo", "org",
                         "net", "hello", "1", "2", "3", "4", "5", "9"}

IsOctet(l) == l \in {"1", "2", "3", "4", "5", "9"}

SeqToSet(s) == {s[i] : i \in DOMAIN s}

Last(s) == s[Len(s)]

\* s.includes(".")
IncludesDot(s) == Len(s) >= 2

\* getTld: the last label of a dotted name, the name itself otherwise
getTld(s) == IF IncludesDot(s) THEN <<Last(s)>> ELSE s

\* isIp: a dotted quad or an IPv6 literal
isIp(s) ==
    \/ Len(s) = 4 /\ \A i \in 1..4 : IsOctet(s[i])
    \/ s = <<"::1">>

\* isDomain: at least two labels, every one a host label
isDomain(s) == Len(s) >= 2 /\ \A i \in DOMAIN s : IsHostLabel(s[i])

\* /[a-zA-Z0-9\-]+/.test(s): unanchored, some character of s is one of these
HostnamePatternTest(s) == \E i \in DOMAIN s : LabelHasAlnum(s[i])

RECURSIVE StripLeading(_)
StripLeading(s) ==
    IF Len(s) >= 2 /\ Head(s) = "" THEN StripLeading(Tail(s)) ELSE s

RECURSIVE StripTrailing(_)
StripTrailing(s) ==
    IF Len(s) >= 2 /\ Last(s) = "" THEN StripTrailing(SubSeq(s, 1, Len(s) - 1))
    ELSE s

\* normalizeDomain: the name without leading and trailing dots
normalizeDomain(s) == StripTrailing(StripLeading(s))

----------------------------------------------------------------------------
(* Data *)

\* ResultRecord {type, value}
DNSRecord(t, v) == [type |-> t, value |-> v]

\* HnsRecord {type, address, txt, ns}; a field the record lacks is undefined
HnsRecord(t, n, a, x) == [type |-> t, ns |-> n, address |-> a, txt |-> x]

NsRecord(n) == HnsRecord("NS", n, Undefined, <<>>)

GlueRecord(t, n, a) == HnsRecord(t, n, a, <<>>)

SynthRecord(t, a) == HnsRecord(t, Undefined, a, <<>>)

TxtRecord(x) == HnsRecord("TXT", Undefined, Undefined, x)

\* the records a chain record set of the model is made of
ChainRecordUniverse ==
    { NsRecord(<<"ns1", "com">>),
      NsRecord(<<"ns1", "hns">>),
      NsRecord(<<"foo", "eth">>),
      NsRecord(<<"_", "">>),
      GlueRecord("GLUE4", <<"ns1", "com">>, <<"9", "9", "9", "9">>),
      GlueRecord("GLUE4", <<"ns1", "com">>, <<"9", "9">>),
      GlueRecord("GLUE4", <<"_", "">>, <<"9", "9", "9", "9">>),
      GlueRecord("GLUE6", <<"ns1", "hns">>, <<"::1">>),
      SynthRecord("SYNTH4", <<"1", "2", "3", "4">>),
      SynthRecord("SYNTH6", <<"::1">>),
      TxtRecord(<<<<"v=1">>, <<"hello">>>>) }

SeqsUpTo(S, n) == UNION {[1..k -> S] : k \in 0..n}

ChainRecordSets == SeqsUpTo(ChainRecordUniverse, MaxRecords)

NoError == "none"

\* the chain query has not answered yet
NoResponse == [error |-> "pending", hasResult |-> FALSE, records |-> <<>>]

\* what the chain query collaborator answers: {result?: {records}, error?}
ChainResponses ==
    {[error |-> "ETIMEDOUT", hasResult |-> FALSE, records |-> <<>>],
     [error |-> NoError, hasResult |-> FALSE, records |-> <<>>]}
    \cup {[error |-> NoError, hasResult |-> TRUE, records |-> rs] :
             rs \in ChainRecordSets}

\* what the host resolver answers: {records}
HostRecordUniverse ==
    { DNSRecord("A", <<"1", "2", "3", "4">>),
      DNSRecord("A", <<"5", "5", "5", "5">>) }

\* the order the host lists its records in
HostRecordRank(r) == IF r.value = <<"1", "2", "3", "4">> THEN 1 ELSE 2

\* the host answers a list of distinct records, in its own order
HostResults ==
    {s \in SeqsUpTo(HostRecordUniverse, MaxHostRecords) :
        \A i, j \in DOMAIN s : i < j => HostRecordRank(s[i]) < HostRecordRank(s[j])}

\* what the DNS client answers: a list of answers, each with data.address
DnsAnswers == SeqsUpTo({<<"5", "5", "5", "5">>, <<"1", "2", "3", "4">>}, MaxHostRecords)

\* what the sibling resolver modules report: one TLD list per module
SiblingReports ==
    { <<{<<"eth">>}, {<<"sol">>}>>,
      <<{<<"eth">>}, {<<"hns">>, <<"sol">>}>> }

\* this.resolver.resolvers: the module list itself or a promise of it
SiblingLists(reports) == [pending : BOOLEAN, modules : reports]

\* options.options; present = FALSE is an options object without the map
OptionMap(p, sq, ns, v6, h, hl, d) ==
    [present |-> p, subquery |-> sq, nameserver |-> ns, ipv6 |-> v6,
     hasHip5 |-> h, hip5 |-> hl, domain |-> d]

AbsentOptions == OptionMap(FALSE, FALSE, Undefined, FALSE, FALSE, <<>>, Undefined)

EmptyOptions == OptionMap(TRUE, FALSE, Undefined, FALSE, FALSE, <<>>, Undefined)

SubqueryOptions(ns) == OptionMap(TRUE, TRUE, ns, FALSE, FALSE, <<>>, Undefined)

DomainOptions(d) == OptionMap(TRUE, FALSE, Undefined, FALSE, FALSE, <<>>, d)

OptionMaps ==
    { AbsentOptions,
      EmptyOptions,
      SubqueryOptions(<<"9", "9", "9", "9">>),
      [EmptyOptions EXCEPT !.ipv6 = TRUE, !.hasHip5 = TRUE],
      [EmptyOptions EXCEPT !.hasHip5 = TRUE, !.hip5 = <<<<"com">>>>] }

Domains == { <<"example", "hns">>, <<"9", "9", "9", "9">> }

NoOutcome == [kind |-> "none", records |-> <<>>, cause |-> NoError]

\* resolverEmptyResponse()
resolverEmptyResponse == [kind |-> "Empty", records |-> <<>>, cause |-> NoError]

\* resolveSuccess(records)
resolveSuccess(rs) == [kind |-> "Success", records |-> rs, cause |-> NoError]

\* resolverError(e)
resolverError(e) == [kind |-> "Error", records |-> <<>>, cause |-> e]

\* the promise of resolve rejects with a TypeError
Thrown == [kind |-> "Throw", records |-> <<>>, cause |-> "TypeError"]

\* one external call: kind is "chain", "host" or "dns"; bypass is the third
\* argument as passed ("absent" when the call passes none); rec is the index
\* of the chain record whose handler issued it (0: none)
Call(k, n, t, o, nsIsRecord, b, r) ==
    [kind |-> k, name |-> n, type |-> t, opts |-> o, nsIsRecord |-> nsIsRecord,
     bypass |-> b, rec |-> r]

BoolArg(b) == IF b THEN "true" ELSE "false"

----------------------------------------------------------------------------
(* Handlers.  A handler runs up to its next await: it gives the records it  *)
(* pushes on the accumulator, the call it issues (none or one) and where    *)
(* it is suspended ("loop": the handler is over).                           *)

Step(push, call, next) == [push |-> push, call |-> call, next |-> next]

Return == Step(<<>>, <<>>, "loop")

Throw == Step(<<>>, <<>>, "throw")

\* this.resolver.resolve(name, {...options, options: o}, bypass)
HostCall(name, o, nsIsRecord, bypass) ==
    <<Call("host", name, type, o, nsIsRecord, bypass, idx)>>

\* options.options?.hip5 ?? []
CallerHip5(o) == IF o.present /\ o.hasHip5 THEN o.hip5 ELSE <<>>

\* the HIP-5 test of processNs and isNSHip5 on a normalized name
Hip5Test(foundDomain, o) ==
    LET hip5Parts == foundDomain
    IN  /\ Len(hip5Parts) >= 2
        /\ <<hip5Parts[Len(hip5Parts)]>> \in
               SeqToSet(CallerHip5(o) \o HIP5_EXTENSIONS)

isNSHip5(record, o) == Hip5Test(normalizeDomain(record.ns), o)

\* [...options.options?.hip5, ...HIP5_EXTENSIONS] of the earlier listing:
\* spreading undefined throws, once the length test has passed
Hip5SpreadThrows(foundDomain, o) ==
    Len(foundDomain) >= 2 /\ ~(o.present /\ o.hasHip5)

IsGlue(item) == item.type \in {"GLUE4", "GLUE6"}

\* hnsRecords.slice().find(item => glue type && item.ns === record.ns):
\* the index of the first match, 0 when there is none
FindGlue(rs, record) ==
    LET hits == {i \in DOMAIN rs : IsGlue(rs[i]) /\ rs[i].ns = record.ns}
    IN  IF hits = {} THEN 0 ELSE CHOOSE i \in hits : \A j \in hits : i <= j

\* the earlier listing scans the accumulator, whose entries have no ns field
FindGlueInAccumulator(acc, record) ==
    LET hits == {i \in DOMAIN acc : IsGlue(acc[i]) /\ Undefined = record.ns}
    IN  IF hits = {} THEN 0 ELSE CHOOSE i \in hits : \A j \in hits : i <= j

\* a gate that lets TEXT requests through
NsApplicableWide(t) == t \in {"A", "CNAME", "NS", "TEXT"}

\* the applicability gate of processNs
NsApplicable(t) == t \in {"A", "CNAME", "NS"}

\* a glue test that forgets the requested type
GlueWinsAnyType(glue) == glue # 0

\* glue && options.type !== DNS_RECORD_TYPE.NS
GlueWins(glue) == glue # 0 /\ type # "NS"

\* a Glue Resolver that does not test record.address
processGlueAnyAddress(record) ==
    IF type \notin {"A", "CNAME"} THEN Return
    ELSE IF isDomain(record.ns)
         THEN Step(<<>>,
                   HostCall(domain, SubqueryOptions(record.address), FALSE,
                            BoolArg(bypassCache)),
                   "subquery")
         ELSE Return

processGlue(record) ==
    IF type \notin {"A", "CNAME"} THEN Return
    ELSE IF isDomain(record.ns) /\ isIp(record.address)
         THEN Step(<<>>,
                   HostCall(domain, SubqueryOptions(record.address), FALSE,
                            BoolArg(bypassCache)),
                   "subquery")
         ELSE Return

processGlueV1(record) ==
    IF type \notin {"A", "CNAME", "NS"} THEN Return
    ELSE IF isDomain(record.ns) /\ isIp(record.address)
         THEN Step(<<>>,
                   HostCall(domain, SubqueryOptions(record.address), FALSE,
                            BoolArg(bypassCache)),
                   "subquery")
         ELSE Return

\* processGlue of part_001: no test of the requested type
processGlueUngated(record) ==
    IF isDomain(record.ns) /\ isIp(record.address)
    THEN Step(<<>>,
              HostCall(domain, SubqueryOptions(record.address), FALSE,
                       BoolArg(bypassCache)),
              "subquery")
    ELSE Return

\* this.processGlue of the listings with the earlier processNs
processGlueEarly(record) ==
    IF variant = "index_v1" THEN processGlueV1(record)
    ELSE processGlueUngated(record)

\* processNs of index.ts (later listing) and of dist/index.js
processNs(record) ==
    IF ~NsApplicable(type) THEN Return
    ELSE
    LET glue == FindGlue(hnsRecords, record)
    IN  IF GlueWins(glue) THEN processGlue(hnsRecords[glue])
        ELSE IF type = "NS" THEN Step(<<DNSRecord(type, record.ns)>>, <<>>, "loop")
        ELSE
        LET foundDomain == normalizeDomain(record.ns)
            isHip5 == Hip5Test(foundDomain, opts)
            isIcann == /\ IncludesDot(foundDomain)
                       /\ Last(foundDomain) \in IcannTlds
        IN  IF (isDomain(foundDomain) \/ HostnamePatternTest(foundDomain))
               /\ ~isHip5
            THEN IF ~isIcann
                 THEN Step(<<>>, HostCall(foundDomain, opts, FALSE, "absent"),
                           "target")
                 ELSE Step(<<>>,
                           HostCall(domain, SubqueryOptions(foundDomain), FALSE,
                                    "absent"),
                           "subquery")
            ELSE Step(<<>>,
                      HostCall(record.ns, opts, FALSE, BoolArg(bypassCache)),
                      "direct")

\* processNs of index.ts (earlier listing) and of part_001
processNsV1(record) ==
    IF ~NsApplicable(type) THEN Return
    ELSE
    LET glue == FindGlueInAccumulator(records, record)
    IN  IF glue # 0 THEN processGlueEarly(record)
        ELSE
        LET foundDomain == normalizeDomain(record.ns)
            isHip5 == Hip5Test(foundDomain, opts)
            isIcann == /\ IncludesDot(foundDomain)
                       /\ Last(foundDomain) \in IcannTlds
        IN  IF Hip5SpreadThrows(foundDomain, opts) THEN Throw
            ELSE IF (isDomain(foundDomain) \/ HostnamePatternTest(foundDomain))
                    /\ ~isHip5
            THEN IF ~isIcann
                 THEN Step(<<>>, HostCall(foundDomain, opts, FALSE, "absent"),
                           "target")
                 ELSE Step(<<>>,
                           HostCall(domain, SubqueryOptions(foundDomain), FALSE,
                                    "absent"),
                           "discard")
            ELSE Step(<<>>,
                      HostCall(record.ns, opts, FALSE, BoolArg(bypassCache)),
                      "direct")

\* record.txt.slice().shift(): the first element instead of the last
FirstTxt(record) == IF Len(record.txt) = 0 THEN Undefined ELSE Head(record.txt)

\* record.txt.slice().pop()
LastTxt(record) == IF Len(record.txt) = 0 THEN Undefined ELSE Last(record.txt)

processTxt(record) ==
    LET content == LastTxt(record)
    IN  IF type \in {"TEXT", "CONTENT"}
        THEN Step(<<DNSRecord("TEXT", content)>>, <<>>, "loop")
        ELSE Return

\* a SYNTH6 case that forgets the ipv6 option
processSynth6NoFlag(record) ==
    IF type = "A"
    THEN IF ~opts.present THEN Throw
         ELSE Step(<<DNSRecord(type, record.address)>>, <<>>, "loop")
    ELSE Return

\* case "SYNTH6" of the dispatch switch; "ipv6" in undefined throws
processSynth6(record) ==
    IF type = "A"
    THEN IF ~opts.present THEN Throw
         ELSE IF opts.ipv6
              THEN Step(<<DNSRecord(type, record.address)>>, <<>>, "loop")
              ELSE Return
    ELSE Return

\* case "SYNTH4" of the dispatch switch
processSynth4(record) ==
    IF type = "A" THEN Step(<<DNSRecord(type, record.address)>>, <<>>, "loop")
    ELSE Return

\* the switch of the dispatch loop
dispatch(record) ==
    CASE record.type = "NS" ->
            IF variant \in EarlyVariants THEN processNsV1(record)
            ELSE processNs(record)
      [] record.type = "GLUE4" ->
            IF variant \in EarlyVariants THEN processGlueEarly(record)
            ELSE processGlue(record)
      [] record.type = "TXT" -> processTxt(record)
      [] record.type = "SYNTH6" -> processSynth6(record)
      [] record.type = "SYNTH4" -> processSynth4(record)
      [] OTHER -> Return

\* ensureUniqueRecords: the first occurrence of every (type, value) pair
RECURSIVE ensureUniqueRecords(_)
ensureUniqueRecords(rs) ==
    IF rs = <<>> THEN <<>>
    ELSE LET init == ensureUniqueRecords(SubSeq(rs, 1, Len(rs) - 1))
         IN  IF Last(rs) \in SeqToSet(init) THEN init ELSE Append(init, Last(rs))

\* a blacklist built from the first sibling module only
buildBlacklistFirst(rs) == IF rs = <<>> THEN {} ELSE Head(rs)

\* buildBlacklist: the union of the TLD lists of the sibling modules
RECURSIVE buildBlacklist(_)
buildBlacklist(rs) ==
    IF rs = <<>> THEN {}
    ELSE Head(rs) \cup buildBlacklist(Tail(rs))

\* records.filter(item => item.type === t)
RECURSIVE findRecordsByType(_, _)
findRecordsByType(rs, t) ==
    IF rs = <<>> THEN <<>>
    ELSE IF Head(rs).type = t
         THEN <<Head(rs)>> \o findRecordsByType(Tail(rs), t)
         ELSE findRecordsByType(Tail(rs), t)

\* findNameserver of the priority-pick listing: <<record>>, or <<>> for false
findNameserver(rs, o) ==
    LET synth4 == findRecordsByType(rs, "SYNTH4")
        synth6 == findRecordsByType(rs, "SYNTH6")
        synth == IF synth4 # <<>> THEN synth4 ELSE synth6
        glue4 == findRecordsByType(rs, "GLUE4")
        glue6 == findRecordsByType(rs, "GLUE6")
        glue == IF glue4 # <<>> THEN glue4 ELSE glue6
        ns == findRecordsByType(rs, "NS")
    IN  IF synth # <<>> THEN <<synth[1]>>
        ELSE IF glue # <<>> THEN <<glue[1]>>
        ELSE IF ns # <<>> /\ ~isNSHip5(ns[1], o) THEN <<ns[1]>>
        ELSE <<>>

\* contentRecords.forEach(record => records.push({CONTENT, last txt}))
RECURSIVE ContentOf(_)
ContentOf(contentRecords) ==
    IF contentRecords = <<>> THEN <<>>
    ELSE <<DNSRecord("CONTENT", LastTxt(Head(contentRecords)))>>
         \o ContentOf(Tail(contentRecords))

\* handleContentRecords of resolver.ts
handleContentRecords(contentRecords) ==
    IF type = "CONTENT" THEN ContentOf(contentRecords) ELSE <<>>

\* the loop over [A, CNAME] of the priority-pick listings: one DNS query
\* when the requested type is one of the two
handleWithNameserver ==
    IF type \in {"A", "CNAME"}
    THEN Step(<<>>, <<Call("dns", domain, type, EmptyOptions, FALSE, "absent", 0)>>,
              "dns")
    ELSE Step(<<>>, <<>>, "finish")

\* the branch of resolve in part_002 that follows the chain fetch
pickNameserver ==
    LET nsServer == findNameserver(hnsRecords, opts)
        ns == findRecordsByType(hnsRecords, "NS")
        content == findRecordsByType(hnsRecords, "TXT")
    IN  IF nsServer = <<>>
        THEN IF ns # <<>> /\ isNSHip5(ns[1], opts)
             THEN Step(<<>>,
                       <<Call("host", ns[1].ns, type, DomainOptions(domain), FALSE,
                              BoolArg(bypassCache), 0)>>,
                       "hip5")
             ELSE IF content # <<>> /\ type = "CONTENT"
                  THEN Step(ContentOf(content), <<>>, "finish")
                  ELSE Step(<<>>, <<>>, "finish")
        ELSE handleWithNameserver

\* nsRecords.find(record => isNSHip5(record, options)): <<record>> or <<>>
RECURSIVE FindHip5(_, _)
FindHip5(nsRecords, o) ==
    IF nsRecords = <<>> THEN <<>>
    ELSE IF isNSHip5(Head(nsRecords), o) THEN <<Head(nsRecords)>>
         ELSE FindHip5(Tail(nsRecords), o)

\* processRecords of resolver.ts
processRecords ==
    LET nsRecords == findRecordsByType(hnsRecords, "NS")
        contentRecords == findRecordsByType(hnsRecords, "TXT")
        hip5Record == FindHip5(nsRecords, opts)
    IN  IF nsRecords # <<>> /\ contentRecords # <<>> /\ type = "CONTENT"
        THEN Step(handleContentRecords(contentRecords), <<>>, "finish")
        ELSE IF nsRecords # <<>> /\ hip5Record # <<>>
        THEN Step(<<>>,
                  <<Call("host", hip5Record[1].ns, type, DomainOptions(domain),
                         FALSE, BoolArg(bypassCache), 0)>>,
                  "hip5")
        ELSE IF nsRecords # <<>> /\ isNSHip5(nsRecords[1], opts)
        THEN Step(<<>>,
                  <<Call("host", nsRecords[1].ns, type, DomainOptions(domain),
                         FALSE, BoolArg(bypassCache), 0)>>,
                  "hip5")
        ELSE IF contentRecords # <<>>
        THEN Step(handleContentRecords(contentRecords), <<>>, "finish")
        ELSE handleWithNameserver

----------------------------------------------------------------------------
(* The call of resolve *)

Init ==
    /\ variant \in Variants
    /\ domain \in Domains
    /\ type \in DNS_RECORD_TYPE
    /\ opts \in OptionMaps
    /\ bypassCache \in BOOLEAN
    /\ resolvers \in SiblingLists(SiblingReports)
    /\ chainResp = NoResponse
    /\ hnsRecords = <<>>
    /\ idx = 0
    /\ records = <<>>
    /\ calls = <<>>
    /\ hostResult = <<>>
    /\ resultRecords = <<>>
    /\ pc = "start"
    /\ outcome = NoOutcome
    /\ stack = <<>>
    /\ zone = <<>>

\* the listings whose resolve tests "subquery" in options.options
HasSubqueryGate(v) == v \in LoopListings

\* "subquery" in options.options
SubqueryGate(v, o) == HasSubqueryGate(v) /\ o.present /\ o.subquery

\* options.options = options.options || {}, absent from the earlier listing
\* and from part_001
NormalizeOptions(v, o) ==
    IF v \in EarlyVariants THEN o ELSE [o EXCEPT !.present = TRUE]

\* the gates of resolve that come before the chain fetch
ShouldBypass(v, d, o, bl) ==
    \/ getTld(d) \in bl
    \/ isIp(d)
    \/ SubqueryGate(v, o)

\* Handshake.query: the bypass argument handed to the chain query; the
\* priority-pick listings pass the literal [tld, true]
QueryCall(v, d, b) ==
    Call("chain", getTld(d), "", EmptyOptions, FALSE,
         IF v \in LoopListings THEN BoolArg(b) ELSE "true", 0)

Done(o) ==
    /\ outcome' = o
    /\ pc' = "done"

\* buildBlacklist tests isPromise(resolvers) and awaits a pending list; the
\* TypeScript listing of part_001 iterates this.resolver.resolvers as it is
AwaitsResolvers(v) == v # "part_001_ts"

\* resolve from its entry to its first await: the option map is normalised,
\* buildBlacklist starts and waits for a pending sibling list, or goes on to
\* enumerate the sibling modules
Enter ==
    /\ UNCHANGED <<stack, zone, resultRecords>>
    /\ pc = "start"
    /\ opts' = NormalizeOptions(variant, opts)
    /\ pc' = IF resolvers.pending /\ AwaitsResolvers(variant)
             THEN "siblings" ELSE "blacklist"
    /\ UNCHANGED <<variant, domain, type, bypassCache, resolvers, chainResp,
                   hnsRecords, idx, records, calls, hostResult, outcome>>

\* resolvers = await resolvers: buildBlacklist holds the module list
ResolversReturn ==
    /\ UNCHANGED <<stack, zone, resultRecords>>
    /\ pc = "siblings"
    /\ resolvers' = [resolvers EXCEPT !.pending = FALSE]
    /\ pc' = "blacklist"
    /\ UNCHANGED <<variant, domain, type, opts, bypassCache, chainResp,
                   hnsRecords, idx, records, calls, hostResult, outcome>>

\* for (const resolver of this.resolver.resolvers) on a promise: a promise
\* is not iterable, buildBlacklist rejects with a TypeError
IterationThrows(v, r) == ~AwaitsResolvers(v) /\ r.pending

\* "subquery" in options.options of the TypeScript listing of part_001: no
\* guard, the test throws on an options object without the map
SubqueryTestThrows(v, o) == v = "part_001_ts" /\ ~o.present

\* the listing whose gates are tested by shouldBypassResolution, which
\* resolve awaits
HasBypassCall(v) == v = "resolver"

\* where resolve stands once shouldBypassResolution has settled with b
BypassSettled(b) == IF b THEN "bypass_true" ELSE "bypass_false"

\* buildBlacklist returns. In the listings with the gates in resolve, the
\* blacklist, IP and subquery gates are tested on the option map as it is
\* now, then the chain query is issued; in resolver.ts shouldBypassResolution
\* tests the gates and settles, resolve has not resumed
BlacklistReturn ==
    /\ UNCHANGED <<stack, zone, resultRecords>>
    /\ pc = "blacklist"
    /\ IF IterationThrows(variant, resolvers)
       THEN /\ Done(Thrown)
            /\ UNCHANGED calls
       ELSE LET blacklist == buildBlacklist(resolvers.modules)
            IN  IF HasBypassCall(variant)
                THEN /\ pc' = BypassSettled(ShouldBypass(variant, domain, opts,
                                                         blacklist))
                     /\ UNCHANGED <<calls, outcome>>
                ELSE IF getTld(domain) \in blacklist \/ isIp(domain)
                THEN /\ Done(resolverEmptyResponse)
                     /\ UNCHANGED calls
                ELSE IF SubqueryTestThrows(variant, opts)
                THEN /\ Done(Thrown)
                     /\ UNCHANGED calls
                ELSE IF ShouldBypass(variant, domain, opts, blacklist)
                THEN /\ Done(resolverEmptyResponse)
                     /\ UNCHANGED calls
                ELSE /\ calls' = Append(calls, QueryCall(variant, domain,
                                                         bypassCache))
                     /\ pc' = "fetch"
                     /\ UNCHANGED outcome
    /\ UNCHANGED <<variant, domain, type, opts, bypassCache, resolvers,
                   chainResp, hnsRecords, idx, records, hostResult>>

\* resolve resumes with what shouldBypassResolution settled with: it returns
\* Empty, or issues the chain query
BypassReturn ==
    /\ UNCHANGED <<stack, zone, resultRecords>>
    /\ pc \in {"bypass_true", "bypass_false"}
    /\ IF pc = "bypass_true"
       THEN /\ Done(resolverEmptyResponse)
            /\ UNCHANGED calls
       ELSE /\ calls' = Append(calls, QueryCall(variant, domain, bypassCache))
            /\ pc' = "fetch"
            /\ UNCHANGED outcome
    /\ UNCHANGED <<variant, domain, type, opts, bypassCache, resolvers,
                   chainResp, hnsRecords, idx, records, hostResult>>

\* what resolve makes of the chain answer: "error", "empty" or "records"
ChainVerdict(v, resp) ==
    IF v \in EarlyVariants \cup {"index_v2"} THEN "records"
    ELSE IF resp.error # NoError THEN "error"
    ELSE IF ~resp.hasResult \/ Len(resp.records) = 0 THEN "empty"
    ELSE "records"

\* resp?.records || [] of the index.ts listings, result.records elsewhere
ChainRecordsOf(resp) == IF resp.hasResult THEN resp.records ELSE <<>>

\* where resolve goes once it holds a record set
AfterFetch(v) ==
    CASE v \in LoopListings -> "loop"
      [] v = "part_002" -> "pick"
      [] v = "resolver" -> "process"

\* resolve once the chain query answered resp
AfterQuery(resp) ==
    LET verdict == ChainVerdict(variant, resp)
    IN  /\ chainResp' = resp
        /\ CASE verdict = "error" ->
                  /\ Done(resolverError(resp.error))
                  /\ UNCHANGED <<hnsRecords, idx>>
             [] verdict = "empty" ->
                  /\ Done(resolverEmptyResponse)
                  /\ UNCHANGED <<hnsRecords, idx>>
             [] OTHER ->
                  /\ hnsRecords' = ChainRecordsOf(resp)
                  /\ idx' = 1
                  /\ pc' = AfterFetch(variant)
                  /\ UNCHANGED outcome
        /\ UNCHANGED <<variant, domain, type, opts, bypassCache, resolvers,
                       records, calls, hostResult>>

\* the chain query returns
QueryReturn ==
    /\ UNCHANGED <<stack, zone, resultRecords>>
    /\ pc = "fetch"
    /\ \E resp \in ChainResponses : AfterQuery(resp)

\* a loop that takes up the next record while the handler still waits
ApplyUnawaited(step) ==
    IF step.next = "throw"
    THEN /\ Done(Thrown)
         /\ UNCHANGED <<records, calls, idx>>
    ELSE /\ records' = records \o step.push
         /\ calls' = calls \o step.call
         /\ pc' = step.next
         /\ idx' = idx + 1
         /\ UNCHANGED outcome

\* the effect of a handler step on the call
Apply(step) ==
    IF step.next = "throw"
    THEN /\ Done(Thrown)
         /\ UNCHANGED <<records, calls, idx>>
    ELSE /\ records' = records \o step.push
         /\ calls' = calls \o step.call
         /\ pc' = step.next
         /\ idx' = IF step.next = "loop" THEN idx + 1 ELSE idx
         /\ UNCHANGED outcome

\* one turn of the dispatch loop: the handler of record idx starts
DispatchRecord ==
    /\ UNCHANGED <<stack, zone, resultRecords>>
    /\ pc = "loop"
    /\ idx <= Len(hnsRecords)
    /\ Apply(dispatch(hnsRecords[idx]))
    /\ UNCHANGED <<variant, domain, type, opts, bypassCache, resolvers,
                   chainResp, hnsRecords, hostResult>>

\* the second call of processNs made without the subquery flag
afterTargetUnflagged(hnsNs) ==
    IF variant \in EarlyVariants
    THEN IF Len(hnsNs) > 0
         THEN Step(<<>>,
                   HostCall(domain, SubqueryOptions(Last(hnsNs).value), TRUE,
                            "absent"),
                   "discard")
         ELSE Step(<<>>,
                   HostCall(domain,
                            SubqueryOptions(normalizeDomain(hnsRecords[idx].ns)),
                            FALSE, "absent"),
                   "discard")
    ELSE IF Len(hnsNs) > 0
         THEN Step(<<>>, HostCall(domain, opts, FALSE, "absent"), "subquery")
         ELSE Return

\* processNs after the target name was resolved
afterTarget(hnsNs) ==
    IF variant \in EarlyVariants
    THEN IF Len(hnsNs) > 0
         THEN Step(<<>>,
                   HostCall(domain, SubqueryOptions(Last(hnsNs).value), TRUE,
                            "absent"),
                   "discard")
         ELSE Step(<<>>,
                   HostCall(domain,
                            SubqueryOptions(normalizeDomain(hnsRecords[idx].ns)),
                            FALSE, "absent"),
                   "discard")
    ELSE IF Len(hnsNs) > 0
         THEN Step(<<>>,
                   HostCall(domain, SubqueryOptions(Last(hnsNs).value), FALSE,
                            "absent"),
                   "subquery")
         ELSE Return

\* a subquery whose records are dropped
afterSubqueryDropped(results) == Step(<<>>, <<>>, "loop")

\* processNs and processGlue after a subquery on the original domain
afterSubquery(results) == Step(results, <<>>, "loop")

\* processNs after the direct resolve of record.ns: an empty result gets the
\* NS record pushed on result.records, the accumulator is left alone
afterDirect(result) ==
    IF Len(result) = 0 THEN Return ELSE Step(result, <<>>, "loop")

\* hnsNs.records once processNs has read the nameserver: pop() takes the
\* last record off a result that has one
leftOfTarget(hnsNs) ==
    IF Len(hnsNs) > 0 THEN SubSeq(hnsNs, 1, Len(hnsNs) - 1) ELSE hnsNs

\* result.records after the direct resolve: the NS record is pushed on an
\* empty result
leftOfDirect(result) ==
    IF Len(result) = 0 THEN <<DNSRecord("NS", hnsRecords[idx].ns)>> ELSE result

\* the records of a host result once the handler that awaited it went on
leftOf(p, result) ==
    CASE p = "target" -> leftOfTarget(result)
      [] p = "direct" -> leftOfDirect(result)
      [] OTHER -> result

\* a host resolve call of a handler returns
HostReturn ==
    /\ UNCHANGED <<stack, zone>>
    /\ pc \in {"target", "subquery", "discard", "direct"}
    /\ \E result \in HostResults :
          /\ Apply(CASE pc = "target" -> afterTarget(result)
                     [] pc = "subquery" -> afterSubquery(result)
                     [] pc = "discard" -> Return
                     [] pc = "direct" -> afterDirect(result))
          /\ hostResult' = result
          /\ resultRecords' = leftOf(pc, result)
    /\ UNCHANGED <<variant, domain, type, opts, bypassCache, resolvers,
                   chainResp, hnsRecords>>

\* part_002: the nameserver record is picked
PickNameserver ==
    /\ UNCHANGED <<stack, zone, resultRecords>>
    /\ pc = "pick"
    /\ Apply(pickNameserver)
    /\ UNCHANGED <<variant, domain, type, opts, bypassCache, resolvers,
                   chainResp, hnsRecords, hostResult>>

\* resolver.ts: processRecords starts
ProcessRecords ==
    /\ UNCHANGED <<stack, zone, resultRecords>>
    /\ pc = "process"
    /\ Apply(processRecords)
    /\ UNCHANGED <<variant, domain, type, opts, bypassCache, resolvers,
                   chainResp, hnsRecords, hostResult>>

\* the host resolve call for a HIP-5 NS record returns
Hip5Return ==
    /\ UNCHANGED <<stack, zone>>
    /\ pc = "hip5"
    /\ \E result \in HostResults :
          /\ Apply(Step(result, <<>>, "finish"))
          /\ hostResult' = result
          /\ resultRecords' = result
    /\ UNCHANGED <<variant, domain, type, opts, bypassCache, resolvers,
                   chainResp, hnsRecords>>

\* ret.length ? [{type, value: ret.slice().shift().data.address}] : []
DnsRecords(ret) == IF Len(ret) > 0 THEN <<DNSRecord(type, Head(ret))>> ELSE <<>>

\* the DNS query returns
DnsReturn ==
    /\ UNCHANGED <<stack, zone, resultRecords>>
    /\ pc = "dns"
    /\ \E ret \in DnsAnswers : Apply(Step(DnsRecords(ret), <<>>, "finish"))
    /\ UNCHANGED <<variant, domain, type, opts, bypassCache, resolvers,
                   chainResp, hnsRecords, hostResult>>

\* records = ensureUniqueRecords(records), absent from the earlier listing
\* and from part_001
FinalRecords(v, rs) == IF v \in EarlyVariants THEN rs ELSE ensureUniqueRecords(rs)

\* what resolve returns for the records it ends with; part_001 returns
\* resolverEmptyResponse() whatever they are
FinalOutcome(v, rs) ==
    IF v \notin Part001Variants /\ 0 < Len(rs) THEN resolveSuccess(rs)
    ELSE resolverEmptyResponse

\* the end of resolve: records = ensureUniqueRecords(records) and the
\* response assembly
Finish ==
    /\ UNCHANGED <<stack, zone, resultRecords>>
    /\ \/ pc = "loop" /\ idx > Len(hnsRecords)
       \/ pc = "finish"
    /\ records' = FinalRecords(variant, records)
    /\ Done(FinalOutcome(variant, records'))
    /\ UNCHANGED <<variant, domain, type, opts, bypassCache, resolvers,
                   chainResp, hnsRecords, idx, calls, hostResult>>

Next ==
    \/ Enter
    \/ ResolversReturn
    \/ BlacklistReturn
    \/ BypassReturn
    \/ QueryReturn
    \/ DispatchRecord
    \/ HostReturn
    \/ PickNameserver
    \/ ProcessRecords
    \/ Hip5Return
    \/ DnsReturn
    \/ Finish

Spec == Init /\ [][Next]_vars

----------------------------------------------------------------------------
(* Nested calls: the host hands a resolve call without the subquery flag   *)
(* back to this module and answers a subquery call itself; the chain       *)
(* publishes one record set per top-level label.                           *)

\* the deepest nesting of resolve calls the model follows
MaxDepth == 3

\* the longest record set a label publishes
MaxZoneRecords == 1

\* the labels the chain publishes a record set under
ZoneLabels == {<<"hns">>, <<"foo">>, <<"eth">>}

\* the records a published record set is made of
ZoneRecordUniverse ==
    { NsRecord(<<"ns1", "foo">>),
      NsRecord(<<"foo", "eth">>),
      SynthRecord("SYNTH4", <<"1", "2", "3", "4">>) }

Zones == [ZoneLabels -> SeqsUpTo(ZoneRecordUniverse, MaxZoneRecords)]

\* the sibling modules of the nested calls: with and without one claiming eth
NestedSiblingReports ==
    { <<{<<"sol">>}>>,
      <<{<<"eth">>}, {<<"sol">>}>> }

InitNested ==
    /\ variant = "dist"
    /\ domain = <<"example", "hns">>
    /\ type = "A"
    /\ opts = EmptyOptions
    /\ bypassCache = FALSE
    /\ resolvers \in SiblingLists(NestedSiblingReports)
    /\ chainResp = NoResponse
    /\ hnsRecords = <<>>
    /\ idx = 0
    /\ records = <<>>
    /\ calls = <<>>
    /\ hostResult = <<>>
    /\ resultRecords = <<>>
    /\ pc = "start"
    /\ outcome = NoOutcome
    /\ stack = <<>>
    /\ zone \in Zones

\* what the chain answers for a label: the record set published under it
ZoneResponse(tld) ==
    IF tld \in DOMAIN zone
    THEN [error |-> NoError, hasResult |-> TRUE, records |-> zone[tld]]
    ELSE [error |-> NoError, hasResult |-> FALSE, records |-> <<>>]

\* the chain query returns the published record set
ZoneReturn ==
    /\ UNCHANGED <<stack, zone, resultRecords>>
    /\ pc = "fetch"
    /\ AfterQuery(ZoneResponse(getTld(domain)))

\* the resolve call a handler is suspended on
Outstanding == Last(calls)

\* the host hands a resolve call to this module unless resolve's subquery
\* gate would turn it away
RoutedToModule(call) == ~SubqueryGate(variant, call.opts)

\* the part of a suspended resolve call that a nested call replaces
Frame ==
    [domain |-> domain, opts |-> opts, bypassCache |-> bypassCache,
     chainResp |-> chainResp, hnsRecords |-> hnsRecords, idx |-> idx,
     records |-> records, pc |-> pc, hostResult |-> hostResult,
     resultRecords |-> resultRecords]

\* a resolve call of a handler enters this module: resolve(name, options,
\* bypassCache) starts while the caller stays suspended
NestedEnter ==
    /\ pc \in {"target", "subquery", "discard", "direct"}
    /\ RoutedToModule(Outstanding)
    /\ Len(stack) < MaxDepth
    /\ stack' = Append(stack, Frame)
    /\ domain' = Outstanding.name
    /\ opts' = Outstanding.opts
    /\ bypassCache' = (Outstanding.bypass = "true")
    /\ chainResp' = NoResponse
    /\ hnsRecords' = <<>>
    /\ idx' = 0
    /\ records' = <<>>
    /\ hostResult' = <<>>
    /\ resultRecords' = <<>>
    /\ pc' = "start"
    /\ \E p \in BOOLEAN : resolvers' = [resolvers EXCEPT !.pending = p]
    /\ UNCHANGED <<variant, type, calls, outcome, zone>>

\* where a handler stands once the call it awaited has settled
Settled(p) ==
    CASE p = "target" -> "target_settled"
      [] p = "subquery" -> "subquery_settled"
      [] p = "discard" -> "discard_settled"
      [] p = "direct" -> "direct_settled"

\* a nested resolve call returns to the handler that awaits it: the handler
\* holds the returned records, a thrown exception goes on to its caller
NestedReturn ==
    /\ pc = "done"
    /\ stack # <<>>
    /\ LET f == Last(stack)
       IN  /\ stack' = SubSeq(stack, 1, Len(stack) - 1)
           /\ domain' = f.domain
           /\ opts' = f.opts
           /\ bypassCache' = f.bypassCache
           /\ chainResp' = f.chainResp
           /\ hnsRecords' = f.hnsRecords
           /\ idx' = f.idx
           /\ records' = f.records
           /\ IF outcome.kind = "Throw"
              THEN /\ pc' = "done"
                   /\ hostResult' = f.hostResult
                   /\ resultRecords' = f.resultRecords
                   /\ UNCHANGED outcome
              ELSE /\ pc' = Settled(f.pc)
                   /\ hostResult' = outcome.records
                   /\ resultRecords' = outcome.records
                   /\ outcome' = NoOutcome
    /\ UNCHANGED <<variant, type, resolvers, calls, zone>>

\* the handler goes on with the records of the nested call
NestedResume ==
    /\ pc \in {"target_settled", "subquery_settled", "discard_settled",
               "direct_settled"}
    /\ Apply(CASE pc = "target_settled" -> afterTarget(hostResult)
               [] pc = "subquery_settled" -> afterSubquery(hostResult)
               [] pc = "discard_settled" -> Return
               [] pc = "direct_settled" -> afterDirect(hostResult))
    /\ resultRecords' = (CASE pc = "target_settled" -> leftOfTarget(hostResult)
                           [] pc = "direct_settled" -> leftOfDirect(hostResult)
                           [] OTHER -> hostResult)
    /\ UNCHANGED <<variant, domain, type, opts, bypassCache, resolvers,
                   chainResp, hnsRecords, hostResult, stack, zone>>

\* the host answers a subquery call itself
SubqueryReturn ==
    /\ pc \in {"target", "subquery", "discard", "direct"}
    /\ ~RoutedToModule(Outstanding)
    /\ HostReturn

NextNested ==
    \/ Enter
    \/ ResolversReturn
    \/ BlacklistReturn
    \/ ZoneReturn
    \/ DispatchRecord
    \/ NestedEnter
    \/ NestedReturn
    \/ NestedResume
    \/ SubqueryReturn
    \/ Finish

\* every call returns and every continuation runs
SpecNested == InitNested /\ [][NextNested]_vars /\ WF_vars(NextNested)

----------------------------------------------------------------------------
(* Properties *)

\* the top-level label of a name: its rightmost segment
TopLabel(s) == <<s[Len(s)]>>

\* the union of the top-level labels the sibling modules report
ReportedTlds == UNION {resolvers.modules[i] : i \in DOMAIN resolvers.modules}

HostCallIndexes == {i \in DOMAIN calls : calls[i].kind = "host"}

ChainCallIndexes == {i \in DOMAIN calls : calls[i].kind = "chain"}

ChainReportedError == chainResp.error \notin {NoError, "pending"}

ChainReportedNoRecords ==
    /\ chainResp.error = NoError
    /\ ~chainResp.hasResult \/ chainResp.records = <<>>

\* C1: a resolve call whose options.options carries subquery = true issues no
\* chain record fetch, no DNS query and no host resolve call, and returns
\* Empty, wherever buildBlacklist gets through the sibling list
C1_SubqueryGuard ==
    (opts.present /\ opts.subquery /\ ~IterationThrows(variant, resolvers)) =>
        /\ calls = <<>>
        /\ pc = "done" => outcome = resolverEmptyResponse

\* C2: when the top-level label of the domain is in the union of the labels
\* the sibling modules report, resolve never issues the chain record fetch and
\* returns Empty, wherever buildBlacklist gets through the sibling list
C2_BlacklistGate ==
    (TopLabel(domain) \in ReportedTlds /\ ~IterationThrows(variant, resolvers)) =>
        /\ ChainCallIndexes = {}
        /\ pc \in {"start", "siblings", "blacklist", "bypass_true", "done"}
        /\ pc = "done" => outcome = resolverEmptyResponse

C2_Witness ==
    /\ pc = "done"
    /\ TopLabel(domain) \in ReportedTlds
    /\ ~isIp(domain)
    /\ ~opts.subquery
    /\ outcome = resolverEmptyResponse

\* C3: a chain query error ends resolve with Error carrying that cause, with
\* no handler run, no host resolve call and no second chain query; an answer
\* without error and without records ends resolve with Empty
C3_ChainFetchOutcome ==
    /\ ChainReportedError =>
          /\ pc = "done"
          /\ outcome = resolverError(chainResp.error)
          /\ records = <<>>
          /\ HostCallIndexes = {}
          /\ Cardinality(ChainCallIndexes) = 1
    /\ (ChainReportedNoRecords /\ pc = "done") => outcome = resolverEmptyResponse

\* C4: every host resolve call of the Delegation and Glue resolvers for a name
\* with the top-level label of the domain carries options.subquery = true
C4_NoUnguardedReentry ==
    variant \in {"index_v2", "dist"} =>
        \A i \in HostCallIndexes :
            TopLabel(calls[i].name) = TopLabel(domain) =>
                calls[i].opts.present /\ calls[i].opts.subquery

\* the glue records of the chain record set paired with NS record i
GlueFor(i) ==
    {g \in DOMAIN hnsRecords :
        /\ hnsRecords[g].type \in {"GLUE4", "GLUE6"}
        /\ hnsRecords[g].ns = hnsRecords[i].ns}

\* C5: in the per-record dispatch listings, for type A or CNAME, an NS record
\* with a paired GLUE4 or GLUE6 record anywhere in the chain record set is
\* handled only by the Glue Resolver: every call made for it is a subquery on
\* the original domain with nameserver = the glue address
C5_GlueWins ==
    (variant \in DispatchVariants /\ type \in {"A", "CNAME"}) =>
        \A i \in DOMAIN hnsRecords :
            (hnsRecords[i].type = "NS" /\ GlueFor(i) # {}) =>
                \A c \in HostCallIndexes :
                    calls[c].rec = i =>
                        /\ calls[c].name = domain
                        /\ calls[c].opts.subquery
                        /\ ~calls[c].nsIsRecord
                        /\ calls[c].opts.nameserver \in
                              {hnsRecords[g].address : g \in GlueFor(i)}

\* rs with every later duplicate removed
RECURSIVE KeepFirst(_, _)
KeepFirst(rs, i) ==
    IF i > Len(rs) THEN <<>>
    ELSE (IF \E j \in 1..(i - 1) : rs[j] = rs[i] THEN <<>> ELSE <<rs[i]>>)
         \o KeepFirst(rs, i + 1)

\* ResultRecord{NS, record.ns} for every NS record of rs, in order
RECURSIVE NsVerbatim(_)
NsVerbatim(rs) ==
    IF rs = <<>> THEN <<>>
    ELSE (IF Head(rs).type = "NS" THEN <<[type |-> "NS", value |-> Head(rs).ns]>>
          ELSE <<>>) \o NsVerbatim(Tail(rs))

\* C6: in the later per-record dispatch listing (index.ts 268-559, dist), when
\* the requested type is NS every NS chain record contributes exactly
\* ResultRecord{NS, record.ns} and no host resolve call is made, paired glue or
\* not; [{NS, ns1.com}] yields Success([{NS, ns1.com}])
C6_NsVerbatim ==
    (variant \in {"index_v2", "dist"} /\ type = "NS") =>
        /\ HostCallIndexes = {}
        /\ (idx >= 1 /\ pc # "done") =>
              records = NsVerbatim(SubSeq(hnsRecords, 1, idx - 1))
        /\ (pc = "done" /\ hnsRecords # <<>>) =>
              /\ idx = Len(hnsRecords) + 1
              /\ records = KeepFirst(NsVerbatim(hnsRecords), 1)
              /\ outcome.kind = (IF records = <<>> THEN "Empty" ELSE "Success")
              /\ outcome.records = records
        /\ (pc = "done" /\ hnsRecords = <<NsRecord(<<"ns1", "com">>)>>) =>
              outcome = resolveSuccess(<<[type |-> "NS", value |-> <<"ns1", "com">>]>>)

C6_Witness ==
    /\ variant \in {"index_v2", "dist"}
    /\ type = "NS"
    /\ pc = "done"
    /\ \E i \in DOMAIN hnsRecords : hnsRecords[i].type = "NS" /\ GlueFor(i) # {}
    /\ outcome.kind = "Success"

\* the HIP-5 test as the specification words it
Hip5Claim(target, callerList) ==
    /\ Len(target) >= 2
    /\ <<target[Len(target)]>> \in SeqToSet(callerList) \cup {<<"eth">>, <<"_eth">>}

\* the caller's hip5 list, an absent list read as the empty list
CallerListOrEmpty == IF opts.hasHip5 THEN opts.hip5 ELSE <<>>

HasHip5Ns ==
    \E i \in DOMAIN hnsRecords :
        /\ hnsRecords[i].type = "NS"
        /\ Hip5Claim(normalizeDomain(hnsRecords[i].ns), CallerListOrEmpty)

CountOfType(rs, t) == Cardinality({i \in DOMAIN rs : rs[i].type = t})

\* C7 as stated: for every requested type outside {A, CNAME, NS} an NS chain
\* record adds nothing to the result and triggers no host resolve call
C7_NsGate ==
    (variant \in {"index_v2", "dist", "resolver"} /\ type \notin {"A", "CNAME", "NS"}) =>
        /\ HostCallIndexes = {}
        /\ Len(records) <= CountOfType(hnsRecords, "TXT")

\* record i is the first HIP-5 NS record of the chain record set
FirstHip5Ns(i) ==
    /\ hnsRecords[i].type = "NS"
    /\ Hip5Claim(normalizeDomain(hnsRecords[i].ns), CallerListOrEmpty)
    /\ \A j \in 1..(i - 1) :
          ~(/\ hnsRecords[j].type = "NS"
            /\ Hip5Claim(normalizeDomain(hnsRecords[j].ns), CallerListOrEmpty))

\* a CONTENT request on a record set that holds a TXT record
ContentRequestWithTxt == type = "CONTENT" /\ CountOfType(hnsRecords, "TXT") > 0

\* C7 amended: the gate holds in the per-record dispatch listings; in
\* resolver.ts it holds when no NS record of the set is HIP-5 and for a
\* CONTENT request on a set that holds a TXT record; in every other case
\* resolver.ts issues exactly one host resolve call, on the ns of the first
\* HIP-5 NS record, and the records of its result are the result of resolve
C7_NsGateAmended ==
    type \notin {"A", "CNAME", "NS"} =>
        /\ variant \in DispatchVariants =>
              /\ HostCallIndexes = {}
              /\ (idx >= 1 /\ pc # "done") =>
                    Len(records) = CountOfType(SubSeq(hnsRecords, 1, idx - 1), "TXT")
              /\ Len(records) <= CountOfType(hnsRecords, "TXT")
        /\ (variant = "resolver" /\ (~HasHip5Ns \/ ContentRequestWithTxt)) =>
              /\ HostCallIndexes = {}
              /\ Len(records) <= CountOfType(hnsRecords, "TXT")
        /\ (variant = "resolver" /\ HasHip5Ns /\ ~ContentRequestWithTxt) =>
              /\ Cardinality(HostCallIndexes) <= 1
              /\ \A c \in HostCallIndexes :
                    \E i \in DOMAIN hnsRecords :
                        FirstHip5Ns(i) /\ calls[c].name = hnsRecords[i].ns
              /\ pc \in {"hip5", "finish", "done"} =>
                    Cardinality(HostCallIndexes) = 1
              /\ pc \in {"finish", "done"} => records = hostResult
              /\ pc = "done" =>
                    outcome = (IF hostResult = <<>> THEN resolverEmptyResponse
                               ELSE resolveSuccess(hostResult))

\* resolver.ts has answered a TEXT request on a set with a HIP-5 NS record and
\* a TXT record with the records of the host resolve of the NS target
C7_Witness ==
    /\ variant = "resolver"
    /\ type = "TEXT"
    /\ pc = "done"
    /\ HasHip5Ns
    /\ \E i \in DOMAIN hnsRecords : hnsRecords[i].type = "TXT"
    /\ Cardinality(HostCallIndexes) = 1
    /\ outcome.kind = "Success"
    /\ outcome.records = hostResult

\* C8: the records of a Success outcome hold no (type, value) pair twice and
\* equal the accumulator with every later duplicate removed
C8_Dedup ==
    (pc = "done" /\ outcome.kind = "Success") =>
        /\ \A i, j \in DOMAIN outcome.records :
              outcome.records[i] = outcome.records[j] => i = j
        /\ outcome.records = KeepFirst(records, 1)

\* the handler of NS record idx has passed its glue test for an A or CNAME
\* request and has made its HIP-5 decision
NsDecisionMade ==
    /\ variant \in DispatchVariants
    /\ type \in {"A", "CNAME"}
    /\ idx \in DOMAIN hnsRecords
    /\ hnsRecords[idx].type = "NS"
    /\ GlueFor(idx) = {}
    /\ pc # "loop"

\* the normalized target of NS record idx passes the name test of processNs
NsTargetIsName ==
    LET target == normalizeDomain(hnsRecords[idx].ns)
    IN  isDomain(target) \/ HostnamePatternTest(target)

\* C9: an NS target is classified HIP-5 exactly when its normalized name has
\* at least 2 labels and its last label is in the caller's hip5 list or in
\* {eth, _eth}, an absent caller list counting as empty: for a target that
\* passes the name test the handler goes to the direct resolve of record.ns
\* exactly when the target is HIP-5 (a target that is no valid name is
\* resolved directly whatever its classification), and resolver.ts resolves
\* an NS record through the host exactly when one is HIP-5
C9_Hip5Classification ==
    /\ (NsDecisionMade /\ NsTargetIsName) =>
          /\ pc \in {"target", "subquery", "discard", "direct"}
          /\ pc = "direct" <=>
                Hip5Claim(normalizeDomain(hnsRecords[idx].ns), CallerListOrEmpty)
    /\ (variant = "resolver" /\ pc \in {"hip5", "dns", "finish"}
        /\ ~(type = "CONTENT" /\ CountOfType(hnsRecords, "TXT") > 0)) =>
          (HostCallIndexes # {} <=> HasHip5Ns)

\* the TXT records of rs with a non-empty txt
TxtIndexes(rs) == {i \in DOMAIN rs : rs[i].type = "TXT" /\ rs[i].txt # <<>>}

\* ResultRecord{t, last element of txt} for every TXT record of rs, in order
RECURSIVE TxtContent(_, _)
TxtContent(rs, t) ==
    IF rs = <<>> THEN <<>>
    ELSE (IF Head(rs).type = "TXT"
          THEN <<[type |-> t, value |-> Head(rs).txt[Len(Head(rs).txt)]]>>
          ELSE <<>>) \o TxtContent(Tail(rs), t)

\* C10 as stated: when the requested type is TEXT or CONTENT every TXT chain
\* record contributes one ResultRecord with the last element of record.txt
C10_TxtExtraction ==
    (variant \in {"dist", "resolver"} /\ type \in {"TEXT", "CONTENT"} /\ pc = "done") =>
        \A i \in TxtIndexes(hnsRecords) :
            \E k \in DOMAIN outcome.records :
                /\ outcome.records[k].type \in {"TEXT", "CONTENT"}
                /\ outcome.records[k].value = hnsRecords[i].txt[Len(hnsRecords[i].txt)]

\* the handler of a TXT record in the per-record dispatch listings
TxtHandlerStep ==
    (variant \in DispatchVariants /\ pc = "loop" /\ idx \in DOMAIN hnsRecords
     /\ hnsRecords[idx].type = "TXT") =>
        records' = records \o
            (IF type \in {"TEXT", "CONTENT"}
             THEN TxtContent(<<hnsRecords[idx]>>, "TEXT") ELSE <<>>)

\* the first step of processRecords in resolver.ts
TxtProcessStep ==
    (variant = "resolver" /\ pc = "process") =>
        records' = (IF type = "CONTENT" THEN TxtContent(hnsRecords, "CONTENT")
                    ELSE <<>>)

TxtScenarioC ==
    (variant \in DispatchVariants \cup {"resolver"} /\ pc = "done"
     /\ type = "CONTENT"
     /\ hnsRecords = <<TxtRecord(<<<<"v=1">>, <<"hello">>>>)>>) =>
        /\ outcome.kind = "Success"
        /\ Len(outcome.records) = 1
        /\ outcome.records[1].value = <<"hello">>
        /\ outcome.records[1].type \in {"TEXT", "CONTENT"}

\* C10 amended: in the per-record dispatch listings a TXT record contributes
\* one TEXT record holding the last element of record.txt when the requested
\* type is TEXT or CONTENT, and nothing otherwise; in resolver.ts the TXT
\* records contribute one CONTENT record each, holding the last element, when
\* the requested type is CONTENT, and nothing otherwise (TEXT included)
C10_TxtExtractionAmended ==
    /\ [][TxtHandlerStep /\ TxtProcessStep]_vars
    /\ []TxtScenarioC

C10_Witness ==
    /\ variant = "resolver"
    /\ type = "CONTENT"
    /\ pc = "done"
    /\ hnsRecords = <<TxtRecord(<<<<"v=1">>, <<"hello">>>>)>>
    /\ outcome = resolveSuccess(<<[type |-> "CONTENT", value |-> <<"hello">>]>>)

\* what a SYNTH4 or SYNTH6 record contributes, as the specification words it
SynthContribution(record) ==
    IF /\ type = "A"
       /\ \/ record.type = "SYNTH4"
          \/ record.type = "SYNTH6" /\ opts.ipv6
    THEN <<[type |-> "A", value |-> record.address]>>
    ELSE <<>>

\* the handler of a SYNTH4 or SYNTH6 record in index.ts 268-559 and dist
SynthHandlerStep ==
    (variant \in {"index_v2", "dist"} /\ pc = "loop" /\ idx \in DOMAIN hnsRecords
     /\ hnsRecords[idx].type \in {"SYNTH4", "SYNTH6"}) =>
        /\ records' = records \o SynthContribution(hnsRecords[idx])
        /\ calls' = calls
        /\ pc' = "loop"
        /\ idx' = idx + 1

SynthScenarioB ==
    (variant \in {"index_v2", "dist"} /\ pc = "done" /\ type = "A" /\ ~opts.ipv6
     /\ hnsRecords = <<SynthRecord("SYNTH4", <<"1", "2", "3", "4">>)>>) =>
        outcome = resolveSuccess(<<[type |-> "A", value |-> <<"1", "2", "3", "4">>]>>)

\* C11: in the per-record dispatch listings (index.ts 268-559, dist) a SYNTH4
\* record contributes ResultRecord{A, record.address} exactly when the
\* requested type is A, a SYNTH6 record exactly when the requested type is A
\* and options.ipv6 is true, and nothing otherwise; [{SYNTH4, 1.2.3.4}] with
\* type A and ipv6 unset yields Success([{A, 1.2.3.4}])
C11_SynthRecords ==
    /\ [][SynthHandlerStep]_vars
    /\ []SynthScenarioB

C11_Witness ==
    /\ variant \in {"index_v2", "dist"}
    /\ type = "A"
    /\ opts.ipv6
    /\ pc = "done"
    /\ hnsRecords = <<SynthRecord("SYNTH6", <<"::1">>),
                      SynthRecord("SYNTH4", <<"1", "2", "3", "4">>)>>
    /\ outcome = resolveSuccess(<<[type |-> "A", value |-> <<"::1">>],
                                  [type |-> "A", value |-> <<"1", "2", "3", "4">>]>>)

\* C12: every chain record fetch issued by resolve passes the caller's
\* bypassCache value unchanged to the chain query collaborator
C12_BypassForwarded ==
    \A i \in ChainCallIndexes : calls[i].bypass = BoolArg(bypassCache)

\* the host resolve calls issued by the handler of chain record i
HostCallsOf(i) == {c \in HostCallIndexes : calls[c].rec = i}

\* the step is the return of a host resolve call to the handler of record idx
HostReturned == pc \in {"target", "subquery", "discard", "direct"} /\ pc' # pc

FirstOf(cs) == CHOOSE c \in cs : \A d \in cs : c <= d

\* the normalized target of NS record i
TargetOf(i) == normalizeDomain(hnsRecords[i].ns)

IcannTarget(t) == Len(t) >= 2 /\ t[Len(t)] \in IcannTlds

\* NS record i is handled by processNs for an A or CNAME request, without
\* paired glue
DelegatedNs(i) ==
    /\ variant \in DispatchVariants
    /\ type \in {"A", "CNAME"}
    /\ i \in DOMAIN hnsRecords
    /\ hnsRecords[i].type = "NS"
    /\ GlueFor(i) = {}

\* the target of NS record i is chain-rooted: a valid domain or hostname
\* label, not HIP-5, not under an ICANN top-level label
ChainRootedNs(i) ==
    /\ DelegatedNs(i)
    /\ isDomain(TargetOf(i)) \/ HostnamePatternTest(TargetOf(i))
    /\ ~Hip5Claim(TargetOf(i), CallerListOrEmpty)
    /\ ~IcannTarget(TargetOf(i))

\* the calls of a chain-rooted NS record: the target name first, then at most
\* one subquery on the original domain
ChainRootedCalls ==
    \A i \in DOMAIN hnsRecords :
        ChainRootedNs(i) =>
            LET cs == HostCallsOf(i)
            IN  /\ Cardinality(cs) <= 2
                /\ cs # {} =>
                      /\ calls[FirstOf(cs)].name = TargetOf(i)
                      /\ ~calls[FirstOf(cs)].opts.subquery
                      /\ \A c \in cs \ {FirstOf(cs)} :
                            /\ calls[c].name = domain
                            /\ calls[c].opts.subquery

\* the return of the target resolution: a subquery on the original domain
\* with the resolved address as nameserver exactly when a record came back,
\* nothing emitted
ChainRootedTargetStep ==
    (ChainRootedNs(idx) /\ pc = "target" /\ HostReturned) =>
        /\ records' = records
        /\ IF hostResult' = <<>>
           THEN /\ calls' = calls
                /\ idx' = idx + 1
                /\ pc' = "loop"
           ELSE /\ Len(calls') = Len(calls) + 1
                /\ SubSeq(calls', 1, Len(calls)) = calls
                /\ LET c == calls'[Len(calls')]
                   IN  /\ c.kind = "host"
                       /\ c.name = domain
                       /\ c.opts.subquery
                       /\ ~c.nsIsRecord
                       /\ c.opts.nameserver \in
                             {hostResult'[k].value : k \in DOMAIN hostResult'}

\* the return of the subquery of a chain-rooted NS record: its records are
\* appended
ChainRootedSubqueryStep ==
    (ChainRootedNs(idx) /\ pc \in {"subquery", "discard"} /\ HostReturned) =>
        /\ records' = records \o hostResult'
        /\ calls' = calls
        /\ idx' = idx + 1

\* C13: in processNs with type A or CNAME, no paired glue and a target that
\* is neither HIP-5 nor under an ICANN top-level label, the module first
\* resolves the target name through the host; exactly when that returns a
\* record it issues one subquery on the original domain with the resolved
\* address as nameserver and appends the subquery's records; otherwise no
\* subquery is issued and the NS record emits nothing
C13_ChainRootedDelegation ==
    /\ []ChainRootedCalls
    /\ [][ChainRootedTargetStep /\ ChainRootedSubqueryStep]_vars

\* the target of NS record i is under an ICANN top-level label and not HIP-5
IcannNs(i) ==
    /\ DelegatedNs(i)
    /\ variant \in {"index_v2", "dist"}
    /\ ~Hip5Claim(TargetOf(i), CallerListOrEmpty)
    /\ IcannTarget(TargetOf(i))

\* the handler of chain record i is over
Handled(i) == idx > i

\* the calls of an ICANN-delegated NS record: one subquery on the original
\* domain with the normalized target as nameserver, and nothing else
IcannCalls ==
    \A i \in DOMAIN hnsRecords :
        IcannNs(i) =>
            /\ Cardinality(HostCallsOf(i)) <= 1
            /\ (Handled(i) \/ (idx = i /\ pc # "loop")) =>
                  Cardinality(HostCallsOf(i)) = 1
            /\ \A c \in HostCallsOf(i) :
                  /\ calls[c].name = domain
                  /\ calls[c].name # TargetOf(i)
                  /\ calls[c].opts.subquery
                  /\ ~calls[c].nsIsRecord
                  /\ calls[c].opts.nameserver = TargetOf(i)

\* the return of the subquery of an ICANN-delegated NS record
IcannReturnStep ==
    (IcannNs(idx) /\ HostReturned) =>
        /\ records' = records \o hostResult'
        /\ calls' = calls
        /\ idx' = idx + 1
        /\ pc' = "loop"

\* C14: in processNs (index.ts 268-559, dist) with type A or CNAME, no paired
\* glue and a non-HIP-5 target under an ICANN top-level label, the module
\* issues exactly one host resolve call, a subquery on the original domain
\* with nameserver = the normalized target, never resolves the target name,
\* and appends exactly the records the subquery returns
C14_IcannDelegation ==
    /\ []IcannCalls
    /\ [][IcannReturnStep]_vars

C14_Witness ==
    /\ variant \in {"index_v2", "dist"}
    /\ type = "CNAME"
    /\ pc = "done"
    /\ hnsRecords = <<NsRecord(<<"ns1", "com">>)>>
    /\ IcannNs(1)
    /\ Cardinality(HostCallIndexes) = 1
    /\ hostResult # <<>>
    /\ outcome = resolveSuccess(hostResult)

\* the target of NS record i is HIP-5, or is neither a valid domain nor a
\* hostname label: processNs resolves record.ns directly
DirectNs(i) ==
    /\ DelegatedNs(i)
    /\ variant \in {"index_v2", "dist"}
    /\ \/ Hip5Claim(TargetOf(i), CallerListOrEmpty)
       \/ ~(isDomain(TargetOf(i)) \/ HostnamePatternTest(TargetOf(i)))

\* the call of a directly resolved NS record: record.ns with the caller's
\* options and bypassCache
DirectCalls ==
    \A i \in DOMAIN hnsRecords :
        DirectNs(i) =>
            /\ Cardinality(HostCallsOf(i)) <= 1
            /\ \A c \in HostCallsOf(i) :
                  /\ calls[c].name = hnsRecords[i].ns
                  /\ calls[c].opts = opts
                  /\ calls[c].bypass = BoolArg(bypassCache)

\* the return of the direct resolve: the returned records, or the raw
\* delegation target when there is none
DirectReturnStep ==
    (DirectNs(idx) /\ pc = "direct" /\ HostReturned) =>
        LET result == hostResult'
        IN  records' = records \o
                (IF result = <<>>
                 THEN <<[type |-> "NS", value |-> hnsRecords[idx].ns]>>
                 ELSE result)

\* a resolve call whose record set holds a directly resolved NS record does
\* not end Empty
DirectNeverEmpty ==
    (pc = "done" /\ idx > Len(hnsRecords)
     /\ \E i \in DOMAIN hnsRecords : DirectNs(i)) => outcome.kind = "Success"

\* C15: in processNs with type A or CNAME and no paired glue, when the target
\* is HIP-5 or not a valid domain or hostname label, the module calls host
\* resolve on record.ns with the caller's options and bypassCache; with no
\* record returned the accumulator gains ResultRecord{NS, record.ns}, so that
\* resolve does not end Empty; otherwise it gains exactly the returned records
C15_DirectFallback ==
    /\ []DirectCalls
    /\ [][DirectReturnStep]_vars
    /\ []DirectNeverEmpty

\* the glue record processGlue is called with by the handler of record idx:
\* a GLUE4 record itself, or the glue paired with an NS record
GlueArgs ==
    IF idx \notin DOMAIN hnsRecords \/ pc # "loop" THEN {}
    ELSE IF hnsRecords[idx].type = "GLUE4" /\ variant \in {"index_v1", "dist"}
    THEN {hnsRecords[idx]}
    ELSE IF /\ hnsRecords[idx].type = "NS"
            /\ variant = "dist"
            /\ type \in {"A", "CNAME"}
            /\ GlueFor(idx) # {}
    THEN {hnsRecords[FirstOf(GlueFor(idx))]}
    ELSE {}

\* what a call of processGlue does up to its await, the requested types it
\* acts for being given
GlueStepFor(types) ==
    \A g \in GlueArgs :
        IF type \in types /\ isDomain(g.ns) /\ isIp(g.address)
        THEN /\ Len(calls') = Len(calls) + 1
             /\ SubSeq(calls', 1, Len(calls)) = calls
             /\ LET c == calls'[Len(calls')]
                IN  /\ c.kind = "host"
                    /\ c.name = domain
                    /\ c.opts.subquery
                    /\ c.opts.nameserver = g.address
                    /\ c.bypass = BoolArg(bypassCache)
             /\ records' = records
             /\ pc' = "subquery"
        ELSE /\ calls' = calls
             /\ records' = records
             /\ pc' \in {"loop", "done"}

\* the subquery of processGlue returns: its records are appended
GlueReturnStep ==
    (variant \in {"index_v1", "dist"} /\ pc = "subquery" /\ HostReturned
     /\ idx \in DOMAIN hnsRecords
     /\ \/ hnsRecords[idx].type = "GLUE4"
        \/ hnsRecords[idx].type = "NS" /\ GlueFor(idx) # {}) =>
        /\ records' = records \o hostResult'
        /\ calls' = calls

\* C16 as stated: processGlue acts only when the requested type is A or
\* CNAME; then, exactly when record.ns is a valid domain and record.address a
\* valid IP, it issues one subquery on the original domain with nameserver =
\* record.address and the caller's bypassCache and appends the returned
\* records; in every other case it issues no call and leaves the accumulator
\* unchanged
C16_GlueResolver ==
    [][GlueStepFor({"A", "CNAME"}) /\ GlueReturnStep]_vars

\* the requested types processGlue acts for in the listing that runs
GlueTypes == IF variant = "index_v1" THEN {"A", "CNAME", "NS"} ELSE {"A", "CNAME"}

\* C16 amended: processGlue acts when the requested type is A or CNAME, and
\* in the earlier listing of index.ts also when it is NS; then, exactly when
\* record.ns is a valid domain and record.address a valid IP, it issues one
\* subquery on the original domain with nameserver = record.address and the
\* caller's bypassCache and appends the returned records; in every other
\* case it issues no call and leaves the accumulator unchanged
C16_GlueResolverAmended ==
    [][GlueStepFor(GlueTypes) /\ GlueReturnStep]_vars

C16_Witness ==
    /\ variant \in {"index_v1", "dist"}
    /\ type = "CNAME"
    /\ pc = "done"
    /\ hnsRecords = <<GlueRecord("GLUE4", <<"ns1", "com">>, <<"9", "9">>),
                      GlueRecord("GLUE4", <<"ns1", "com">>, <<"9", "9", "9", "9">>)>>
    /\ Cardinality(HostCallIndexes) = 1
    /\ \A c \in HostCallIndexes :
          /\ calls[c].opts.nameserver = <<"9", "9", "9", "9">>
          /\ calls[c].rec = 2
    /\ hostResult # <<>>
    /\ outcome = resolveSuccess(hostResult)

PriorityVariants == {"part_002", "resolver"}

DnsCallIndexes == {i \in DOMAIN calls : calls[i].kind = "dns"}

\* the NS records of rs, in order
NsOf(rs) == SelectSeq(rs, LAMBDA r : r.type = "NS")

HasType(rs, ts) == \E i \in DOMAIN rs : rs[i].type \in ts

\* the first NS record of rs exists and is not HIP-5
FirstNsPlain(rs) ==
    /\ NsOf(rs) # <<>>
    /\ ~Hip5Claim(normalizeDomain(NsOf(rs)[1].ns), CallerListOrEmpty)

\* the record set holds a nameserver record: a SYNTH4 or SYNTH6 record, else
\* a GLUE4 or GLUE6 record, else a first NS record that is not HIP-5
HasNameserverRecord(rs) ==
    \/ HasType(rs, {"SYNTH4", "SYNTH6", "GLUE4", "GLUE6"})
    \/ FirstNsPlain(rs)

\* ns (<<record>> or <<>>) is the nameserver record of rs as the claim
\* orders the choice
IsPriorityPick(rs, ns) ==
    IF HasType(rs, {"SYNTH4", "SYNTH6"})
    THEN ns # <<>> /\ ns[1].type \in {"SYNTH4", "SYNTH6"} /\ ns[1] \in SeqToSet(rs)
    ELSE IF HasType(rs, {"GLUE4", "GLUE6"})
    THEN ns # <<>> /\ ns[1].type \in {"GLUE4", "GLUE6"} /\ ns[1] \in SeqToSet(rs)
    ELSE IF FirstNsPlain(rs) THEN ns = <<NsOf(rs)[1]>>
    ELSE ns = <<>>

\* C17: in the priority-pick listings the nameserver record is a SYNTH4 or
\* SYNTH6 record if any exists, else a GLUE4 or GLUE6 record, else the first
\* NS record provided it is not HIP-5, else none; whenever such a record
\* exists and the requested type is A or CNAME, resolve issues exactly one
\* plain DNS query for the domain and that type and no host resolve call,
\* whatever other records the set contains
C17_PriorityPick ==
    (variant \in PriorityVariants /\ hnsRecords # <<>>) =>
        /\ variant = "part_002" =>
              IsPriorityPick(hnsRecords, findNameserver(hnsRecords, opts))
        /\ (HasNameserverRecord(hnsRecords) /\ type \in {"A", "CNAME"}) =>
              /\ HostCallIndexes = {}
              /\ Cardinality(DnsCallIndexes) <= 1
              /\ \A c \in DnsCallIndexes :
                    calls[c].name = domain /\ calls[c].type = type
              /\ pc \in {"dns", "finish", "done"} =>
                    Cardinality(DnsCallIndexes) = 1

\* the priority-pick listing runs on a record set without nameserver record
FallbackCase ==
    /\ variant \in PriorityVariants
    /\ hnsRecords # <<>>
    /\ ~HasNameserverRecord(hnsRecords)

\* the priority-pick listing is past its choice
Picked == pc \in {"hip5", "dns", "finish", "done"}

\* C18: in the priority-pick listings, when the record set has no SYNTH, no
\* GLUE and no non-HIP-5 NS nameserver record, a HIP-5 NS record is resolved
\* through host resolve on its ns and the result's records are the payload,
\* for every requested type, TXT records or not; only when there is no HIP-5
\* NS record are the TXT records used, each yielding a CONTENT record with the
\* last txt element when the requested type is CONTENT
C18_PriorityFallback ==
    FallbackCase =>
        /\ DnsCallIndexes = {}
        /\ IF NsOf(hnsRecords) # <<>>
           THEN /\ Cardinality(HostCallIndexes) <= 1
                /\ \A c \in HostCallIndexes :
                      /\ calls[c].name = NsOf(hnsRecords)[1].ns
                      /\ calls[c].bypass = BoolArg(bypassCache)
                /\ Picked => Cardinality(HostCallIndexes) = 1
                /\ pc \in {"finish", "done"} => records = hostResult
                /\ pc = "done" =>
                      outcome = (IF hostResult = <<>> THEN resolverEmptyResponse
                                 ELSE resolveSuccess(hostResult))
           ELSE /\ HostCallIndexes = {}
                /\ pc = "finish" =>
                      records = (IF type = "CONTENT"
                                 THEN TxtContent(hnsRecords, "CONTENT")
                                 ELSE <<>>)
                /\ pc = "done" =>
                      records = (IF type = "CONTENT"
                                 THEN KeepFirst(TxtContent(hnsRecords, "CONTENT"), 1)
                                 ELSE <<>>)

\* the NS records published under a label
PublishedNs(t) == {r \in SeqToSet(zone[t]) : r.type = "NS"}

\* an NS record whose target resolve hands to the host as a name of its own,
\* without the subquery flag: a valid name that is neither HIP-5 nor ICANN
IsDelegation(r) ==
    LET target == normalizeDomain(r.ns)
    IN  /\ isDomain(target) \/ HostnamePatternTest(target)
        /\ ~Hip5Test(target, EmptyOptions)
        /\ ~IcannTarget(target)

\* an NS record whose ns field processNs resolves directly, without the
\* subquery flag: a HIP-5 target or one that is no valid name
IsDirect(r) ==
    LET target == normalizeDomain(r.ns)
    IN  \/ Hip5Test(target, EmptyOptions)
        \/ ~(isDomain(target) \/ HostnamePatternTest(target))

\* the delegation graph among top-level labels: a label points to the
\* top-level label of each non-ICANN, non-HIP-5 NS target published under it
DelegationGraph ==
    [t \in ZoneLabels |->
        {TopLabel(normalizeDomain(r.ns)) : r \in {x \in PublishedNs(t) : IsDelegation(x)}}]

\* the graph of every resolve call without the subquery flag: the label also
\* points to the top-level label of each NS target that is resolved directly
ResolveGraph ==
    [t \in ZoneLabels |->
        DelegationGraph[t]
        \cup {getTld(r.ns) : r \in {x \in PublishedNs(t) : IsDirect(x)}}]

Successors(g, t) == IF t \in DOMAIN g THEN g[t] ELSE {}

\* the labels a path of one to n edges leads to from t
RECURSIVE ReachedFrom(_, _, _)
ReachedFrom(g, t, n) ==
    IF n = 0 THEN {}
    ELSE Successors(g, t)
         \cup UNION {ReachedFrom(g, u, n - 1) : u \in Successors(g, t)}

Acyclic(g) ==
    \A t \in DOMAIN g : t \notin ReachedFrom(g, t, Cardinality(DOMAIN g))

MaxOf(S) == CHOOSE m \in S : \A k \in S : k <= m

\* the number of edges of the longest path of at most n edges out of t
RECURSIVE LongestFrom(_, _, _)
LongestFrom(g, t, n) ==
    IF n = 0 \/ Successors(g, t) = {} THEN 0
    ELSE 1 + MaxOf({LongestFrom(g, u, n - 1) : u \in Successors(g, t)})

LongestPath(g) ==
    MaxOf({LongestFrom(g, t, Cardinality(DOMAIN g)) : t \in DOMAIN g})

\* the outermost resolve call has returned
Returned == stack = <<>> /\ pc = "done"

\* the number of resolve calls suspended on the running one
NestingDepth == Len(stack)

\* C19: with a host that hands resolve calls without the subquery flag back
\* to the module and answers subquery calls itself, and a finite acyclic
\* delegation graph (a label points to the top-level label of each non-ICANN,
\* non-HIP-5 NS target published under it), every resolve call returns
\* eventually, returns one outcome only, and is never nested deeper than the
\* longest delegation path
C19_AcyclicTermination ==
    /\ Acyclic(DelegationGraph) ~> Returned
    /\ [][~Returned]_vars
    /\ [](Acyclic(DelegationGraph) =>
             NestingDepth <= LongestPath(DelegationGraph))

\* C19, as the code has it: the graph that bounds the nesting also holds the
\* NS targets that processNs resolves directly (HIP-5 targets and targets that
\* are no valid name); when that graph is acyclic every resolve call returns,
\* returns one outcome only, and is never nested deeper than its longest path
C19_AcyclicTerminationAmended ==
    /\ Acyclic(ResolveGraph) ~> Returned
    /\ [][~Returned]_vars
    /\ [](Acyclic(ResolveGraph) => NestingDepth <= LongestPath(ResolveGraph))

\* a call that went two resolve calls deep, through a delegation and a direct
\* resolve, and returned the address found at the end of the path
C19_Witness ==
    /\ Returned
    /\ Acyclic(ResolveGraph)
    /\ LongestPath(ResolveGraph) = 2
    /\ LongestPath(DelegationGraph) = 1
    /\ \E i \in ChainCallIndexes : calls[i].name = <<"foo">>
    /\ \E i \in ChainCallIndexes : calls[i].name = <<"eth">>
    /\ outcome.kind = "Success"

\* the listings with the dispatch loop of the later design
LoopVariants == {"index_v2", "dist"}

\* resolve is suspended on a host resolve call
AwaitingHost == pc \in {"target", "subquery", "discard", "direct"}

\* resolve is suspended on the sibling enumeration: the pending sibling list
\* or the labels of the sibling modules
AwaitingSiblings == pc \in {"siblings", "blacklist"}

\* resolve is suspended on an external call: the sibling enumeration, the
\* chain fetch or a host resolve call
Awaiting == AwaitingSiblings \/ pc = "fetch" \/ AwaitingHost

IsPrefix(s, t) == Len(s) <= Len(t) /\ s = SubSeq(t, 1, Len(s))

\* the call resolve is suspended on is the last one issued: the chain fetch
\* before any record is handled, a host call of the record being handled
\* afterwards; the calls were issued in the order of the records
OneCallOutstanding ==
    /\ AwaitingSiblings => calls = <<>> /\ idx = 0
    /\ pc = "fetch" => Last(calls).kind = "chain" /\ idx = 0
    /\ AwaitingHost => Last(calls).kind = "host" /\ Last(calls).rec = idx
    /\ \A i, j \in DOMAIN calls : i < j => calls[i].rec <= calls[j].rec

\* a step issues at most one call and then waits for it; the next record is
\* taken up only by a step that leaves no call outstanding; the calls and the
\* accumulator only grow at the end, until the last step drops the later
\* duplicates from the accumulator and keeps the order of the rest
InOrderStep ==
    /\ idx' \in {idx, idx + 1}
    /\ idx' # idx => ~Awaiting' /\ idx' <= Len(hnsRecords') + 1
    /\ IsPrefix(calls, calls')
    /\ Len(calls') <= Len(calls) + 1
    /\ calls' # calls => Awaiting'
    /\ Awaiting' => calls' # calls \/ AwaitingSiblings'
    /\ pc' # "done" => IsPrefix(records, records')
    /\ pc' = "done" => records' = KeepFirst(records, 1)
    /\ (records' # records /\ pc' # "done") => idx \in DOMAIN hnsRecords

\* C20: within one resolve call of the later index.ts listing and of
\* dist/index.js the records are handled in the order of the record set, at
\* most one external call is outstanding, the handler of the next record
\* starts only when every call of the current one has returned, and the
\* accumulator holds the outputs of a record before those of the next
C20_SingleFlow ==
    /\ [](variant \in LoopVariants => OneCallOutstanding)
    /\ [][(variant \in LoopVariants) => InOrderStep]_vars

\* two NS records, each answered by one host call: the accumulator holds the
\* answer to the first record before the answer to the second
C20_Witness ==
    /\ variant \in LoopVariants
    /\ pc = "done"
    /\ hnsRecords = <<NsRecord(<<"ns1", "com">>), NsRecord(<<"foo", "eth">>)>>
    /\ Len(calls) = 3
    /\ calls[2].rec = 1
    /\ calls[3].rec = 2
    /\ records = <<DNSRecord("A", <<"5", "5", "5", "5">>),
                   DNSRecord("A", <<"1", "2", "3", "4">>)>>

\* the subqueries of the call that name the address as their nameserver
SubqueriesTo(address) ==
    {i \in HostCallIndexes :
        /\ calls[i].opts.subquery
        /\ calls[i].opts.nameserver = address}

\* the record set is one NS record and one GLUE4 record with the same valid
\* ns and a valid address, in either order
IsGluePairing(rs) ==
    /\ Len(rs) = 2
    /\ \E i, j \in DOMAIN rs :
          /\ rs[i].type = "NS"
          /\ rs[j].type = "GLUE4"
          /\ rs[j].ns = rs[i].ns
          /\ isDomain(rs[j].ns)
          /\ isIp(rs[j].address)

GlueAddress(rs) == (CHOOSE r \in SeqToSet(rs) : r.type = "GLUE4").address

\* C21: in dist/index.js, a type A or CNAME call whose record set is one NS
\* record and one GLUE4 record with the same valid ns and a valid address
\* issues exactly one subquery with that address as nameserver, whatever the
\* order of the two records
C21_OneSubqueryPerGlue ==
    (/\ variant = "dist"
     /\ type \in {"A", "CNAME"}
     /\ pc = "done"
     /\ IsGluePairing(hnsRecords))
    => Cardinality(SubqueriesTo(GlueAddress(hnsRecords))) = 1

\* C22: in the later index.ts listing and in dist/index.js processNs leaves
\* every host result it received as the host returned it: the records of the
\* result hold the same elements in the same order, none removed, none added
C22_HostResultsUntouched ==
    variant \in LoopVariants => resultRecords = hostResult

\* C23: in the later index.ts listing and in dist/index.js every host resolve
\* call issued for a resolve call (target-name resolution, chain-rooted
\* subquery, ICANN subquery, glue subquery, direct resolve of record.ns)
\* carries the bypassCache value that resolve call was given
C23_BypassReachesHostCalls ==
    variant \in LoopVariants =>
        \A i \in HostCallIndexes : calls[i].bypass = BoolArg(bypassCache)
====
